---- MODULE Spec2Model ----
(***************************************************************************)
(* Model of the draft-law change tracker of taiwan-tax-scraper             *)
(* (src/draft_law_scraper.py): one run of main() fetches the current       *)
(* drafts, reconciles them against the persisted history file              *)
(* draft_law_history.json and writes the new history back.                 *)
(*                                                                         *)
(* Python dicts are TLA+ records whose DOMAIN is the set of keys present;  *)
(* strings are sequences of character codes, so that concatenation is \o   *)
(* and the order used by list.sort is the lexicographic order of str.      *)
(* Only the keys that the reconciliation reads or writes are carried:      *)
(* unique_id, url, title, date, end_date, status, source, scraped_at,      *)
(* last_updated, changes, expired_at.                                      *)
(***************************************************************************)
EXTENDS Integers, Sequences, FiniteSets, TLC

(***************************************************************************)
(* Bounds of the model.                                                    *)
(***************************************************************************)
MaxBatch == 2   \* longest list of drafts one fetch returns
MaxRuns == 3    \* number of runs of main(), also the range of the clock
MaxRetries == 6 \* largest max_retries given to safe_request

(***************************************************************************)
(* Character strings.                                                      *)
(***************************************************************************)
EmptyStr == << >>
Dot == 46
Dash == 45
Zero == 48
Slash == 47

IsDigit(c) == c \in Zero..(Zero + 9)

RECURSIVE StrLess(_, _)
\* a < b for Python str: code point by code point, a proper prefix is less
StrLess(a, b) ==
    IF b = << >> THEN FALSE
    ELSE IF a = << >> THEN TRUE
    ELSE IF Head(a) < Head(b) THEN TRUE
    ELSE IF Head(a) > Head(b) THEN FALSE
    ELSE StrLess(Tail(a), Tail(b))

\* a local variable: F(v), with v evaluated once and then named
With(v, F(_)) == CHOOSE y \in {F(x) : x \in {v}} : TRUE

RECURSIVE Split(_, _)
\* str.split(sep) for a one-character separator
Split(s, sep) ==
    LET hits == {i \in 1..Len(s) : s[i] = sep}
    IN IF hits = {} THEN <<s>>
       ELSE With(CHOOSE i \in hits : \A j \in hits : i <= j, LAMBDA k :
            With(SubSeq(s, k + 1, Len(s)), LAMBDA rest :
            <<SubSeq(s, 1, k - 1)>> \o Split(rest, sep)))

\* int(s) succeeds on a non-empty string of decimal digits
IsInt(s) == Len(s) > 0 /\ \A i \in 1..Len(s) : IsDigit(s[i])

RECURSIVE ToInt(_)
ToInt(s) ==
    IF s = << >> THEN 0
    ELSE 10 * ToInt(SubSeq(s, 1, Len(s) - 1)) + (s[Len(s)] - Zero)

RECURSIVE ToStr(_)
\* str(n) for n >= 0
ToStr(n) ==
    IF n < 10 THEN <<Zero + n>>
    ELSE ToStr(n \div 10) \o <<Zero + (n % 10)>>

\* f"{n:02d}"
Pad2(n) == IF n < 10 THEN <<Zero>> \o ToStr(n) ELSE ToStr(n)

RocOffset == 1911

\* ImprovedDraftLawScraper.convert_roc_date: "114.08.19" -> "2025-08-19";
\* any other text comes back as it was given
convert_roc_date(roc_date) ==
    LET parts == Split(roc_date, Dot)
    IN IF Len(parts) = 3 /\ \A i \in 1..3 : IsInt(parts[i])
       THEN ToStr(ToInt(parts[1]) + RocOffset) \o <<Dash>>
            \o Pad2(ToInt(parts[2])) \o <<Dash>> \o Pad2(ToInt(parts[3]))
       ELSE roc_date

(***************************************************************************)
(* Dict access.                                                            *)
(***************************************************************************)
Has(d, k) == k \in DOMAIN d

\* d.get(k, default)
Get(d, k, default) == IF Has(d, k) THEN d[k] ELSE default

\* d[k] = v on a copy
Put(d, k, v) == [x \in (DOMAIN d) \cup {k} |-> IF x = k THEN v ELSE d[x]]

\* a.get(k) != b.get(k): a key absent on one side only is a difference
Differs(a, b, k) ==
    \/ Has(a, k) # Has(b, k)
    \/ Has(a, k) /\ Has(b, k) /\ a[k] # b[k]

Range(s) == {s[i] : i \in 1..Len(s)}

(***************************************************************************)
(* Identity.                                                               *)
(***************************************************************************)
\* hashlib.md5(text).hexdigest()[:12], taken as an injective tag of its text
md5_12(text) == [md5 |-> text]

\* an identifier made of title and date also when there is a url
generate_unique_id_by_title(draft) ==
    md5_12(Get(draft, "title", EmptyStr) \o Get(draft, "date", EmptyStr))

\* ImprovedDraftLawScraper.generate_unique_id
generate_unique_id(draft) ==
    IF Has(draft, "url") /\ draft.url # EmptyStr
    THEN md5_12(draft.url)
    ELSE md5_12(Get(draft, "title", EmptyStr) \o Get(draft, "date", EmptyStr))

(***************************************************************************)
(* What the page can show.                                                 *)
(***************************************************************************)
U1 == <<117, 49>>
U2 == <<117, 50>>
T1 == <<84, 49>>
T2 == <<84, 50>>
L1 == <<76, 49>>
R114_08_19 == <<49, 49, 52, 46, 48, 56, 46, 49, 57>>
R114_07_30 == <<49, 49, 52, 46, 48, 55, 46, 51, 48>>
R114_09_30 == <<49, 49, 52, 46, 48, 57, 46, 51, 48>>
R114_10_31 == <<49, 49, 52, 46, 49, 48, 46, 51, 49>>

\* rows matched by the table pattern of fetch_draft_laws:
\* (date ddd.dd.dd, title, url, end date ddd.dd.dd)
\* one draft (url U1) as first seen and with its title, its date or its end
\* date revised, and a second draft (url U2)
MainRows ==
    {[url |-> U1, title |-> T1, date |-> R114_08_19, end_date |-> R114_09_30],
     [url |-> U1, title |-> T2, date |-> R114_08_19, end_date |-> R114_09_30],
     [url |-> U1, title |-> T1, date |-> R114_07_30, end_date |-> R114_09_30],
     [url |-> U1, title |-> T1, date |-> R114_08_19, end_date |-> R114_10_31],
     [url |-> U2, title |-> T1, date |-> R114_08_19, end_date |-> R114_09_30]}

\* lines picked up by _alternative_parsing, with or without an https link
AltRows == {[title |-> L1], [title |-> L1, url |-> U1]}

SeqsUpTo(S, n) == UNION {[1..k -> S] : k \in 0..n}

\* the dict built for one matched row in fetch_draft_laws
main_draft(row, t) ==
    LET d == [date |-> convert_roc_date(row.date),
              title |-> row.title,
              url |-> row.url,
              end_date |-> convert_roc_date(row.end_date),
              scraped_at |-> t,
              source |-> "MOF_DraftForum",
              status |-> "active"]
    IN Put(d, "unique_id", generate_unique_id(d))

\* the dict built for one line in _alternative_parsing
alt_draft(row, t) ==
    LET d == [title |-> row.title,
              scraped_at |-> t,
              source |-> "MOF_DraftForum_Alternative",
              status |-> "active"]
        e == IF Has(row, "url") THEN Put(d, "url", row.url) ELSE d
    IN Put(e, "unique_id", generate_unique_id(e))


(***************************************************************************)
(* compare_and_update_smart, step by step.                                 *)
(***************************************************************************)
\* keys of {item.get('unique_id'): item for item in items
\*          if item.get('unique_id')}, in dict (first insertion) order
dict_keys(items) ==
    LET F[i \in 0..Len(items)] ==
            IF i = 0 THEN << >>
            ELSE IF Has(items[i], "unique_id")
                    /\ items[i].unique_id \notin Range(F[i - 1])
                 THEN Append(F[i - 1], items[i].unique_id)
                 ELSE F[i - 1]
    IN F[Len(items)]

\* value of that dict at uid: the last item of the list carrying uid
dict_value(items, uid) ==
    LET hits == {i \in 1..Len(items) :
                    Has(items[i], "unique_id") /\ items[i].unique_id = uid}
    IN items[CHOOSE i \in hits : \A j \in hits : j <= i]

\* the set of keys of that dict
ids_all(items) == Range(dict_keys(items))

\* [x for x in s if x in S], the skeleton of the loops below
Keep(s, S) ==
    LET F[i \in 0..Len(s)] ==
            IF i = 0 THEN << >>
            ELSE IF s[i] \in S THEN Append(F[i - 1], s[i]) ELSE F[i - 1]
    IN F[Len(s)]

\* step 1 gone wrong: the loop runs over the list instead of current_dict
new_items_per_record(history, current_drafts) ==
    LET history_keys == Range(dict_keys(history))
    IN Keep(current_drafts,
            {draft \in Range(current_drafts) : draft.unique_id \notin history_keys})

\* step 1 gone wrong: an expired entry of the history counts as unknown
new_items_expired_as_new(history, current_drafts) ==
    LET history_keys == {uid \in Range(dict_keys(history)) :
                            dict_value(history, uid).status # "expired"}
        found == Keep(dict_keys(current_drafts),
                      {uid \in ids_all(current_drafts) : uid \notin history_keys})
    IN [i \in 1..Len(found) |-> dict_value(current_drafts, found[i])]

\* step 1: the drafts whose unique_id is not in the history
new_items_of(history, current_drafts) ==
    LET history_keys == Range(dict_keys(history))
        found == Keep(dict_keys(current_drafts),
                      {uid \in ids_all(current_drafts) : uid \notin history_keys})
    IN [i \in 1..Len(found) |-> dict_value(current_drafts, found[i])]

\* step 2 gone wrong: the announcement date is not compared
changes_without_date(current_draft, historical_draft) ==
    (IF Differs(current_draft, historical_draft, "title")
     THEN <<"title">> ELSE << >>)
    \o (IF Differs(current_draft, historical_draft, "end_date")
        THEN <<"end_date">> ELSE << >>)

\* step 2: the list `changes` of one comparison
\* (labels of the code: title, end date, announcement date)
changes_of(current_draft, historical_draft) ==
    (IF Differs(current_draft, historical_draft, "title")
     THEN <<"title">> ELSE << >>)
    \o (IF Differs(current_draft, historical_draft, "end_date")
        THEN <<"end_date">> ELSE << >>)
    \o (IF Differs(current_draft, historical_draft, "date")
        THEN <<"date">> ELSE << >>)

\* step 2: the draft after last_updated and changes were set on it
mark_updated(current_draft, changes, t) ==
    Put(Put(current_draft, "last_updated", t), "changes", changes)

updated_items_of(history, current_drafts, t) ==
    LET history_keys == Range(dict_keys(history))
        chg(uid) == changes_of(dict_value(current_drafts, uid),
                               dict_value(history, uid))
        found == Keep(dict_keys(current_drafts),
                      {uid \in ids_all(current_drafts) :
                          uid \in history_keys /\ chg(uid) # << >>})
    IN [i \in 1..Len(found) |->
          mark_updated(dict_value(current_drafts, found[i]), chg(found[i]), t)]

\* step 3: does this history entry expire in this pass
expires(historical_draft, current_uids) ==
    /\ historical_draft.unique_id \notin current_uids
    /\ Has(historical_draft, "status")
    /\ historical_draft.status = "active"

\* step 3 gone wrong: every absent entry is stamped, also an expired one
mark_expired_again(historical_draft, current_uids, t) ==
    IF historical_draft.unique_id \notin current_uids
    THEN Put(Put(historical_draft, "status", "expired"), "expired_at", t)
    ELSE historical_draft

\* step 3 gone wrong: the status is set, the time of expiry is not
mark_expired_unstamped(historical_draft, current_uids, t) ==
    IF expires(historical_draft, current_uids)
    THEN Put(historical_draft, "status", "expired")
    ELSE historical_draft

\* step 3: the history entry of uid as the loop leaves it
mark_expired(historical_draft, current_uids, t) ==
    IF expires(historical_draft, current_uids)
    THEN Put(Put(historical_draft, "status", "expired"), "expired_at", t)
    ELSE historical_draft

expired_count_of(history, current_drafts) ==
    LET current_uids == Range(dict_keys(current_drafts))
    IN Cardinality({uid \in Range(dict_keys(history)) :
                       expires(dict_value(history, uid), current_uids)})

\* step 4, first loop: next((item for item in updated_items
\*                           if item.get('unique_id') == uid), draft)
updated_version(draft, updated_items) ==
    LET hits == {i \in 1..Len(updated_items) :
                    Has(draft, "unique_id")
                    /\ updated_items[i].unique_id = draft.unique_id}
    IN IF hits = {} THEN draft
       ELSE updated_items[CHOOSE i \in hits : \A j \in hits : i <= j]

\* step 4, second loop: the expired entries of the history that are kept
kept_expired(history, current_drafts, t) ==
    LET current_uids == Range(dict_keys(current_drafts))
        after(uid) == mark_expired(dict_value(history, uid), current_uids, t)
        found == Keep(dict_keys(history),
                      {uid \in ids_all(history) :
                          /\ uid \notin current_uids
                          /\ Has(after(uid), "status")
                          /\ after(uid).status = "expired"})
    IN [i \in 1..Len(found) |-> after(found[i])]

\* step 4: updated_history before it is sorted
merged_history(history, current_drafts, t) ==
    LET updated_items == updated_items_of(history, current_drafts, t)
    IN [i \in 1..Len(current_drafts) |->
          updated_version(current_drafts[i], updated_items)]
       \o kept_expired(history, current_drafts, t)

\* key=lambda x: x.get('date', '')
sort_key(x) == Get(x, "date", EmptyStr)

\* one insertion of a stable descending sort: x goes after every element
\* whose key is not smaller than its own
insert_desc(s, x) ==
    LET smaller == {i \in 1..Len(s) : StrLess(sort_key(s[i]), sort_key(x))}
    IN IF smaller = {} THEN Append(s, x)
       ELSE LET k == CHOOSE i \in smaller : \A j \in smaller : i <= j
            IN SubSeq(s, 1, k - 1) \o <<x>> \o SubSeq(s, k, Len(s))

\* the sort gone wrong: reverse=True left out, the order is ascending
sort_by_date_asc(items) ==
    LET ins(s, x) ==
            LET greater == {i \in 1..Len(s) : StrLess(sort_key(x), sort_key(s[i]))}
            IN IF greater = {} THEN Append(s, x)
               ELSE LET k == CHOOSE i \in greater : \A j \in greater : i <= j
                    IN SubSeq(s, 1, k - 1) \o <<x>> \o SubSeq(s, k, Len(s))
        F[i \in 0..Len(items)] ==
            IF i = 0 THEN << >> ELSE ins(F[i - 1], items[i])
    IN F[Len(items)]

\* updated_history.sort(key=..., reverse=True): descending, stable
sort_by_date_desc(items) ==
    LET F[i \in 0..Len(items)] ==
            IF i = 0 THEN << >> ELSE insert_desc(F[i - 1], items[i])
    IN F[Len(items)]

\* current_drafts as the pass leaves it: step 2 writes last_updated and
\* changes on the draft object held by current_dict
drafts_after(history, current_drafts, t) ==
    LET updated_items == updated_items_of(history, current_drafts, t)
    IN [i \in 1..Len(current_drafts) |->
          IF /\ Has(current_drafts[i], "unique_id")
             /\ \A j \in (i + 1)..Len(current_drafts) :
                   Get(current_drafts[j], "unique_id", EmptyStr)
                       # current_drafts[i].unique_id
          THEN updated_version(current_drafts[i], updated_items)
          ELSE current_drafts[i]]

\* the dict `stats` gone wrong: active_count counts identifiers, not drafts
stats_of_distinct(new_items, updated_items, expired_count, current_drafts, updated_history) ==
    [new_count |-> Len(new_items),
     updated_count |-> Len(updated_items),
     expired_count |-> expired_count,
     active_count |-> Cardinality(ids_all(current_drafts)),
     total_historical |-> Len(updated_history)]

\* the dict `stats`
stats_of(new_items, updated_items, expired_count, current_drafts, updated_history) ==
    [new_count |-> Len(new_items),
     updated_count |-> Len(updated_items),
     expired_count |-> expired_count,
     active_count |-> Len(current_drafts),
     total_historical |-> Len(updated_history)]

\* save_history: the file holds the list that was dumped
save_history(all_drafts) == all_drafts

(***************************************************************************)
(* State.                                                                  *)
(***************************************************************************)
VARIABLES
    history_file,     \* content of data/draft_law_history.json, a list
    now,              \* the clock: number of runs of main() so far
    rows,             \* what the page showed in the last run that reconciled
    history,          \* compare_and_update_smart: the list load_history gave
    current_drafts,   \* its argument, as the pass left it
    merged,           \* its updated_history before the sort
    new_items,        \* returned: the new drafts
    updated_items,    \* returned: the updated drafts
    updated_history,  \* returned: the history that was saved
    stats,            \* returned: the counters
    success           \* what main() returned in the last run ("none" at start)

\* one call of a function of the normalizer or of the identity assigner
VARIABLES
    fn,               \* the function called ("none" before any call)
    arg,              \* its argument
    out               \* what the call gave, [value |-> v] or [raised |-> e]

\* the files of the data directory and one run of a scraper on them, step
\* by step
VARIABLES
    program,          \* the scraper run on the directory: "draft", "rulings"
    disk,             \* the files that exist, by name, with their content
    pc,               \* where the run is ("idle": no run is going on)
    clock,            \* number of runs started so far
    before,           \* the history file when the run started, None if absent
    batch,            \* the records the run fetched
    loaded,           \* the history the run loaded
    found,            \* the records the run found to be new
    pending,          \* the history the run saves
    save_failed,      \* the save of the run ended in an exception
    report            \* the report the run wrote, None before it

\* one call of safe_request, step by step
VARIABLES
    req_pc,           \* where the call is ("idle": not called yet)
    max_retries,      \* its parameter
    attempt,          \* the loop variable
    answers,          \* what session.get gave, attempt by attempt
    sleeps,           \* the seconds given to time.sleep, wait by wait
    response          \* what the call returned, None or one response

draft_vars == <<history_file, now, rows, history, current_drafts, merged,
                new_items, updated_items, updated_history, stats, success>>

call_vars == <<fn, arg, out>>

store_vars == <<program, disk, pc, clock, before, batch, loaded, found,
                pending, save_failed, report>>

request_vars == <<req_pc, max_retries, attempt, answers, sleeps, response>>

vars == <<draft_vars, call_vars, store_vars, request_vars>>

\* load_history: no file yet gives [], else the list in the file
load_history(file) == file

\* the list built by the main loop of fetch_draft_laws
fetch_main(page, t) == [i \in 1..Len(page) |-> main_draft(page[i], t)]

\* the list built by _alternative_parsing
fetch_alt(page, t) == [i \in 1..Len(page) |-> alt_draft(page[i], t)]

MainPages == SeqsUpTo(MainRows, MaxBatch) \ {<< >>}
AltPages == SeqsUpTo(AltRows, MaxBatch) \ {<< >>}

\* no function has been called
NoCall ==
    /\ fn = "none"
    /\ arg = << >>
    /\ out = << >>

\* the draft tracker before its first run
DraftIdle ==
    /\ history_file = << >>
    /\ now = 0
    /\ rows = << >>
    /\ history = << >>
    /\ current_drafts = << >>
    /\ merged = << >>
    /\ new_items = << >>
    /\ updated_items = << >>
    /\ updated_history = << >>
    /\ stats = [new_count |-> 0, updated_count |-> 0, expired_count |-> 0,
                active_count |-> 0, total_historical |-> 0]
    /\ success = "none"

\* what a run holds in memory before it has done anything
NoRun ==
    /\ pc = "idle"
    /\ before = << >>
    /\ batch = << >>
    /\ loaded = << >>
    /\ found = << >>
    /\ pending = << >>
    /\ save_failed = FALSE
    /\ report = << >>

\* an empty data directory on which nothing runs
NoStore ==
    /\ program = "none"
    /\ disk = << >>
    /\ clock = 0
    /\ NoRun

\* safe_request has not been called
NoRequest ==
    /\ req_pc = "idle"
    /\ max_retries = 0
    /\ attempt = 0
    /\ answers = << >>
    /\ sleeps = << >>
    /\ response = << >>

Init == DraftIdle /\ NoCall /\ NoStore /\ NoRequest

\* compare_and_update_smart(drafts) at time t, with its save
compare_and_update_smart(drafts, t) ==
    LET h == load_history(history_file)
        n == new_items_of(h, drafts)
        u == updated_items_of(h, drafts, t)
        m == merged_history(h, drafts, t)
        s == sort_by_date_desc(m)
    IN /\ history' = h
       /\ current_drafts' = drafts_after(h, drafts, t)
       /\ new_items' = n
       /\ updated_items' = u
       /\ merged' = m
       /\ updated_history' = s
       /\ history_file' = save_history(s)
       /\ stats' = stats_of(n, u, expired_count_of(h, drafts), drafts, s)

\* main(): fetch_draft_laws came back with drafts and the run went through
RunMain(page) ==
    /\ now < MaxRuns
    /\ now' = now + 1
    /\ rows' = page
    /\ compare_and_update_smart(fetch_main(page, now + 1), now + 1)
    /\ success' = "True"
    /\ UNCHANGED <<call_vars, store_vars, request_vars>>

\* main(): the table pattern matched nothing, _alternative_parsing found lines
RunAlternative(page) ==
    /\ now < MaxRuns
    /\ now' = now + 1
    /\ rows' = page
    /\ compare_and_update_smart(fetch_alt(page, now + 1), now + 1)
    /\ success' = "True"
    /\ UNCHANGED <<call_vars, store_vars, request_vars>>

\* a main() that reconciles the empty list it was given
RunNoDataReconciled ==
    /\ now < MaxRuns
    /\ now' = now + 1
    /\ compare_and_update_smart(<< >>, now + 1)
    /\ success' = "False"
    /\ UNCHANGED <<rows, call_vars, store_vars, request_vars>>

\* main(): fetch_draft_laws returned [] (request failed, or nothing parsed):
\* main returns False before the history is touched
RunNoData ==
    /\ now < MaxRuns
    /\ now' = now + 1
    /\ success' = "False"
    /\ UNCHANGED <<history_file, rows, history, current_drafts, merged,
                   new_items, updated_items, updated_history, stats>>
    /\ UNCHANGED <<call_vars, store_vars, request_vars>>

Next ==
    \/ \E page \in MainPages : RunMain(page)
    \/ \E page \in AltPages : RunAlternative(page)
    \/ RunNoData

Spec == Init /\ [][Next]_vars

(***************************************************************************)
(* Calls of the normalizer and of the identity assigner, one at a time,    *)
(* on arguments that need not come from a page.                            *)
(***************************************************************************)
\* the dicts whose keys are some of the keys of V, with values from V[key]
Dicts(V) ==
    UNION {{d \in [K -> UNION {V[k] : k \in K}] : \A k \in K : d[k] \in V[k]} :
              K \in SUBSET (DOMAIN V)}

D2025_08_19 == convert_roc_date(R114_08_19)
D2025_07_30 == convert_roc_date(R114_07_30)

\* the runs in which a record can have been scraped
ScrapeTimes == 1..MaxRuns

\* drafts given to generate_unique_id: each of url, title and date is
\* absent or has one of two values (the url can also be the empty string),
\* scraped in any run
IdentityDrafts ==
    {Put(d, "scraped_at", t) :
        d \in Dicts([url |-> {U1, U2, EmptyStr},
                     title |-> {T1, T2},
                     date |-> {D2025_08_19, D2025_07_30}]),
        t \in ScrapeTimes}

\* a call that returned v
Returned(v) == [value |-> v]

\* a call that ended in the exception e
Raised(e) == [raised |-> e]

\* scraper.generate_unique_id(draft)
CallGenerateUniqueId(draft) ==
    /\ fn' = "generate_unique_id"
    /\ arg' = draft
    /\ out' = Returned(generate_unique_id(draft))
    /\ UNCHANGED <<draft_vars, store_vars, request_vars>>

(***************************************************************************)
(* Calls of convert_roc_date.  An argument that may be missing is a        *)
(* sequence of at most one value: None is the empty one.                   *)
(***************************************************************************)
None == << >>
Some(x) == <<x>>

\* "114.8.9"
Roc_114_8_9 == <<49, 49, 52, 46, 56, 46, 57>>
\* "114/08/19"
Roc_114_08_19_slash == <<49, 49, 52, 47, 48, 56, 47, 49, 57>>
\* "114 Nian 07 Yue 30 Ri" without the blanks, with the signs for year, month, day
Roc_114_07_30_cjk == <<49, 49, 52, 24180, 48, 55, 26376, 51, 48, 26085>>
\* "abc"
Text_abc == <<97, 98, 99>>
\* "114.08"
Roc_114_08 == <<49, 49, 52, 46, 48, 56>>
\* "114.ab.19"
Roc_114_ab_19 == <<49, 49, 52, 46, 97, 98, 46, 49, 57>>

\* texts given to convert_roc_date, and the missing value
DateArgs ==
    {Some(x) : x \in {R114_08_19, R114_07_30, Roc_114_8_9, Roc_114_08_19_slash,
                      Roc_114_07_30_cjk, Text_abc, Roc_114_08, Roc_114_ab_19,
                      EmptyStr}}
    \cup {None}

\* scraper.convert_roc_date(roc_date): None has no split, and the
\* AttributeError is not one of the exceptions the function catches
convert_roc_date_call(roc_date) ==
    IF roc_date = None THEN Raised("AttributeError")
    ELSE Returned(convert_roc_date(roc_date[1]))

CallConvertRocDate(roc_date) ==
    /\ fn' = "convert_roc_date"
    /\ arg' = roc_date
    /\ out' = convert_roc_date_call(roc_date)
    /\ UNCHANGED <<draft_vars, store_vars, request_vars>>

(***************************************************************************)
(* The identity of a ruling (src/smart_scraper.py).                        *)
(***************************************************************************)
Pipe == 124
TitleKeyLen == 50

\* s[:n]
Take(s, n) == SubSeq(s, 1, IF Len(s) < n THEN Len(s) ELSE n)

RECURSIVE Join(_, _)
\* sep.join(parts)
Join(parts, sep) ==
    IF parts = << >> THEN EmptyStr
    ELSE IF Len(parts) = 1 THEN parts[1]
    ELSE parts[1] \o sep \o Join(Tail(parts), sep)

\* filter(None, parts): the strings that are not empty
NonEmpty(parts) == SelectSeq(parts, LAMBDA x : x # EmptyStr)

\* TaxRulingScraper.generate_id
generate_id(ruling) ==
    LET key_parts == <<Get(ruling, "date", EmptyStr),
                       Get(ruling, "doc_number", EmptyStr),
                       Take(Get(ruling, "title", EmptyStr), TitleKeyLen)>>
        key_string == Join(NonEmpty(key_parts), <<Pipe>>)
    IN md5_12(key_string)

\* two document numbers, of the form matched by the pattern of the scraper
DocNo1 == <<21488, 36001, 31237, 23383, 31532, 49, 34399>>
DocNo2 == <<21488, 36001, 31237, 23383, 31532, 50, 34399>>

\* two subjects that agree on their first TitleKeyLen characters and
\* differ in the next one
Subject1 == [i \in 1..TitleKeyLen |-> 84] \o <<97>>
Subject2 == [i \in 1..TitleKeyLen |-> 84] \o <<98>>

\* rulings given to generate_id: date and doc_number absent or one of two,
\* the title a short one or one of the two long subjects
IdentityRulings ==
    Dicts([date |-> {R114_08_19, R114_07_30},
           doc_number |-> {DocNo1, DocNo2},
           title |-> {T1, Subject1, Subject2}])

\* scraper.generate_id(ruling)
CallGenerateId(ruling) ==
    /\ fn' = "generate_id"
    /\ arg' = ruling
    /\ out' = Returned(generate_id(ruling))
    /\ UNCHANGED <<draft_vars, store_vars, request_vars>>

(***************************************************************************)
(* Link repair (src/smart_scraper.py): str methods and urllib.parse.       *)
(***************************************************************************)
\* s.startswith(prefix)
StartsWith(s, prefix) ==
    Len(s) >= Len(prefix) /\ SubSeq(s, 1, Len(prefix)) = prefix

\* s.find(sub) counted from 1, 0 when sub is not in s
Find(s, sub) ==
    LET hits == {i \in 1..(Len(s) - Len(sub) + 1) :
                    SubSeq(s, i, i + Len(sub) - 1) = sub}
    IN IF hits = {} THEN 0 ELSE CHOOSE i \in hits : \A j \in hits : i <= j

\* sub in s
Contains(s, sub) == Find(s, sub) # 0

RECURSIVE Replace(_, _, _)
\* s.replace(old, new): every occurrence, left to right, without overlap
Replace(s, old, new) ==
    With(Find(s, old), LAMBDA k :
    IF k = 0 THEN s
    ELSE With(SubSeq(s, k + Len(old), Len(s)), LAMBDA rest :
         SubSeq(s, 1, k - 1) \o new \o Replace(rest, old, new)))

\* blank, tab, line feed, vertical tab, form feed, carriage return
IsSpace(c) == c \in {32} \cup (9..13)

\* s.strip()
Strip(s) ==
    LET kept == {i \in 1..Len(s) : ~IsSpace(s[i])}
    IN IF kept = {} THEN EmptyStr
       ELSE SubSeq(s, CHOOSE i \in kept : \A j \in kept : i <= j,
                      CHOOSE i \in kept : \A j \in kept : i >= j)

\* s.lower() on the letters A-Z
Lower(s) == [i \in 1..Len(s) |-> IF s[i] \in 65..90 THEN s[i] + 32 ELSE s[i]]

IsLetter(c) == c \in 65..90 \/ c \in 97..122

\* urllib.parse.scheme_chars: letters, digits, "+", "-", "."
IsSchemeChar(c) == IsLetter(c) \/ IsDigit(c) \/ c \in {43, 45, 46}

Colon == 58
Question == 63
Hash == 35

\* the part of s before the first c, and the part after it (empty when
\* c is not in s)
Before(s, c) ==
    LET k == Find(s, <<c>>) IN IF k = 0 THEN s ELSE SubSeq(s, 1, k - 1)
After(s, c) ==
    LET k == Find(s, <<c>>)
    IN IF k = 0 THEN EmptyStr ELSE SubSeq(s, k + 1, Len(s))

\* urllib.parse.urlparse(url, scheme=default) for a url without ";",
\* brackets and control characters: scheme, netloc, path, query, fragment
urlparse(url, default) ==
    With(Find(url, <<Colon>>), LAMBDA i :
    With(/\ i > 1
         /\ IsLetter(url[1])
         /\ \A j \in 1..(i - 1) : IsSchemeChar(url[j]), LAMBDA has_scheme :
    With(IF has_scheme THEN SubSeq(url, i + 1, Len(url)) ELSE url, LAMBDA rest :
    With(StartsWith(rest, <<Slash, Slash>>), LAMBDA has_netloc :
    With(SubSeq(rest, 3, Len(rest)), LAMBDA after :
    With({j \in 1..Len(after) : after[j] \in {Slash, Question, Hash}},
         LAMBDA ends :
    With(IF ends = {} THEN Len(after) + 1
         ELSE CHOOSE j \in ends : \A k \in ends : j <= k, LAMBDA cut :
    With(IF has_netloc THEN SubSeq(after, cut, Len(after)) ELSE rest,
         LAMBDA tail :
    With(Before(tail, Hash), LAMBDA no_fragment :
        [scheme |-> IF has_scheme THEN Lower(SubSeq(url, 1, i - 1))
                    ELSE default,
         netloc |-> IF has_netloc THEN SubSeq(after, 1, cut - 1)
                    ELSE EmptyStr,
         path |-> Before(no_fragment, Question),
         query |-> After(no_fragment, Question),
         fragment |-> After(tail, Hash)])))))))))

\* urllib.parse.urlunparse for a url with a netloc
urlunparse(parts) ==
    parts.scheme \o <<Colon, Slash, Slash>> \o parts.netloc \o parts.path
    \o (IF parts.query = EmptyStr THEN EmptyStr ELSE <<Question>> \o parts.query)
    \o (IF parts.fragment = EmptyStr THEN EmptyStr
        ELSE <<Hash>> \o parts.fragment)

RECURSIVE resolve_dots(_, _)
\* the loop of urljoin over the segments: ".." drops the last one kept,
\* "." is skipped
resolve_dots(segments, kept) ==
    IF segments = << >> THEN kept
    ELSE LET seg == Head(segments)
         IN IF seg = <<Dot, Dot>>
            THEN resolve_dots(Tail(segments),
                              SubSeq(kept, 1, Len(kept) - 1))
            ELSE IF seg = <<Dot>> THEN resolve_dots(Tail(segments), kept)
            ELSE resolve_dots(Tail(segments), Append(kept, seg))

\* the path of urljoin: the segments of the base path without its last
\* one, then those of the path, empty ones in the middle dropped, dots
\* resolved
join_path(base_path, path) ==
    With(Split(base_path, Slash), LAMBDA bp :
    With(IF bp[Len(bp)] # EmptyStr THEN SubSeq(bp, 1, Len(bp) - 1) ELSE bp,
         LAMBDA base_parts :
    With(base_parts \o Split(path, Slash), LAMBDA joined :
    With(IF StartsWith(path, <<Slash>>) THEN Split(path, Slash)
         ELSE <<joined[1]>>
              \o NonEmpty(SubSeq(joined, 2, Len(joined) - 1))
              \o <<joined[Len(joined)]>>, LAMBDA segments :
    With(resolve_dots(segments, << >>)
         \o (IF segments[Len(segments)] \in {<<Dot>>, <<Dot, Dot>>}
             THEN <<EmptyStr>> ELSE << >>), LAMBDA resolved :
    With(Join(resolved, <<Slash>>), LAMBDA resolved_path :
        IF resolved_path = EmptyStr THEN <<Slash>> ELSE resolved_path))))))

\* urllib.parse.urljoin(base, url), base an https url with a netloc
\* (https is one of uses_relative and of uses_netloc)
urljoin(base, url) ==
    With(urlparse(base, EmptyStr), LAMBDA b :
    With(urlparse(url, b.scheme), LAMBDA u :
        IF url = EmptyStr THEN base
        ELSE IF u.scheme # b.scheme THEN url
        ELSE IF u.netloc # EmptyStr THEN urlunparse(u)
        ELSE IF u.path = EmptyStr
        THEN urlunparse([scheme |-> u.scheme, netloc |-> b.netloc,
                         path |-> b.path,
                         query |-> IF u.query = EmptyStr THEN b.query
                                   ELSE u.query,
                         fragment |-> u.fragment])
        ELSE urlunparse([scheme |-> u.scheme, netloc |-> b.netloc,
                         path |-> join_path(b.path, u.path),
                         query |-> u.query,
                         fragment |-> u.fragment])))

RECURSIVE collapse_slashes(_, _)
\* re.sub(r'(?<!:)//', '/', url) from position i on: two slashes not
\* preceded by a colon become one
collapse_slashes(url, i) ==
    IF i > Len(url) THEN EmptyStr
    ELSE IF /\ i < Len(url)
            /\ url[i] = Slash /\ url[i + 1] = Slash
            /\ (i = 1 \/ url[i - 1] # Colon)
    THEN <<Slash>> \o collapse_slashes(url, i + 2)
    ELSE <<url[i]>> \o collapse_slashes(url, i + 1)

\* "http://", "https://"
HttpPrefix == <<104, 116, 116, 112, 58, 47, 47>>
HttpsPrefix == <<104, 116, 116, 112, 115, 58, 47, 47>>
\* the host "law.dot.gov.tw" of the source
SourceHost == <<108, 97, 119, 46, 100, 111, 116, 46, 103, 111, 118, 46, 116, 119>>
\* self.base_url
base_url == HttpsPrefix \o SourceHost
\* "/law-ch/"
LawChPath == <<47, 108, 97, 119, 45, 99, 104, 47>>

\* error_patterns: ('twhome.jsp', '/home.jsp'), ('gov.twhome', 'gov.tw/home'),
\* ('lawlaw', 'law'), ('//', '/')
error_patterns ==
    <<<<<<116, 119, 104, 111, 109, 101, 46, 106, 115, 112>>,
        <<47, 104, 111, 109, 101, 46, 106, 115, 112>>>>,
      <<<<103, 111, 118, 46, 116, 119, 104, 111, 109, 101>>,
        <<103, 111, 118, 46, 116, 119, 47, 104, 111, 109, 101>>>>,
      <<<<108, 97, 119, 108, 97, 119>>, <<108, 97, 119>>>>,
      <<<<Slash, Slash>>, <<Slash>>>>>>

RECURSIVE fix_patterns(_, _)
\* the loop over error_patterns: a pattern found in the url is replaced,
\* the double slash is left to the next step
fix_patterns(url, patterns) ==
    IF patterns = << >> THEN url
    ELSE LET error_pattern == Head(patterns)[1]
             correct_pattern == Head(patterns)[2]
         IN IF Contains(url, error_pattern) /\ error_pattern # <<Slash, Slash>>
            THEN With(Replace(url, error_pattern, correct_pattern),
                      LAMBDA fixed : fix_patterns(fixed, Tail(patterns)))
            ELSE fix_patterns(url, Tail(patterns))

\* TaxRulingScraper.fix_url_comprehensive
fix_url_comprehensive(original_url) ==
    With(Strip(original_url), LAMBDA stripped :
    With(fix_patterns(stripped, error_patterns), LAMBDA fixed :
    With(IF Contains(fixed, <<Slash, Slash>>)
            /\ ~StartsWith(fixed, SubSeq(HttpPrefix, 1, 4))
         THEN collapse_slashes(fixed, 1) ELSE fixed, LAMBDA single :
    With(IF StartsWith(single, HttpPrefix) \/ StartsWith(single, HttpsPrefix)
         THEN single
         ELSE IF StartsWith(single, <<Slash>>) THEN base_url \o single
         ELSE urljoin(base_url \o LawChPath, single), LAMBDA complete :
    With(IF StartsWith(complete, HttpPrefix \o SourceHost)
         THEN Replace(complete, HttpPrefix, HttpsPrefix)
         ELSE complete, LAMBDA secure :
    With(urlparse(secure, EmptyStr), LAMBDA result :
        IF original_url = EmptyStr THEN EmptyStr
        ELSE IF result.scheme = EmptyStr \/ result.netloc = EmptyStr
        THEN original_url
        ELSE secure))))))

\* hrefs given to fix_url_comprehensive
LinkArgs ==
    {
     \* "https://law.dot.gov.twhome.jsp?id=18"
     <<104, 116, 116, 112, 115, 58, 47, 47, 108, 97, 119, 46, 100, 111,
            116, 46, 103, 111, 118, 46, 116, 119, 104, 111, 109, 101, 46,
            106, 115, 112, 63, 105, 100, 61, 49, 56>>,
     \* "https://law.dot.gov.tw/law-ch/home.jsp"
     <<104, 116, 116, 112, 115, 58, 47, 47, 108, 97, 119, 46, 100, 111,
            116, 46, 103, 111, 118, 46, 116, 119, 47, 108, 97, 119, 45, 99,
            104, 47, 104, 111, 109, 101, 46, 106, 115, 112>>,
     \* "/law-ch/home.jsp"
     <<47, 108, 97, 119, 45, 99, 104, 47, 104, 111, 109, 101, 46, 106, 115,
            112>>,
     \* "home.jsp?id=18"
     <<104, 111, 109, 101, 46, 106, 115, 112, 63, 105, 100, 61, 49, 56>>,
     \* "http://law.dot.gov.tw/lawlaw/x"
     <<104, 116, 116, 112, 58, 47, 47, 108, 97, 119, 46, 100, 111, 116, 46,
            103, 111, 118, 46, 116, 119, 47, 108, 97, 119, 108, 97, 119,
            47, 120>>,
     \* "//law-ch//home.jsp"
     <<47, 47, 108, 97, 119, 45, 99, 104, 47, 47, 104, 111, 109, 101, 46,
            106, 115, 112>>,
     \* "http://"
     <<104, 116, 116, 112, 58, 47, 47>>,
     \* "javascript:void(0)"
     <<106, 97, 118, 97, 115, 99, 114, 105, 112, 116, 58, 118, 111, 105,
            100, 40, 48, 41>>,
     \* "#"
     <<35>>,
     \* ""
     << >>,
     \* "law-ch//home.jsp"
     <<108, 97, 119, 45, 99, 104, 47, 47, 104, 111, 109, 101, 46, 106, 115,
            112>>,
     \* "http://example.com/lawlaw/a"
     <<104, 116, 116, 112, 58, 47, 47, 101, 120, 97, 109, 112, 108, 101,
            46, 99, 111, 109, 47, 108, 97, 119, 108, 97, 119, 47, 97>>,
     \* "https://law.dot.gov.tw/law-ch//home.jsp"
     <<104, 116, 116, 112, 115, 58, 47, 47, 108, 97, 119, 46, 100, 111,
            116, 46, 103, 111, 118, 46, 116, 119, 47, 108, 97, 119, 45, 99,
            104, 47, 47, 104, 111, 109, 101, 46, 106, 115, 112>>,
     \* "mailto:a@b"
     <<109, 97, 105, 108, 116, 111, 58, 97, 64, 98>>,
     \* "twhome.jsp"
     <<116, 119, 104, 111, 109, 101, 46, 106, 115, 112>>,
     \* "../x"
     <<46, 46, 47, 120>>,
     \* "law.dot.gov.twhome.jsp"
     <<108, 97, 119, 46, 100, 111, 116, 46, 103, 111, 118, 46, 116, 119,
            104, 111, 109, 101, 46, 106, 115, 112>>,
     \* " /a "
     <<32, 47, 97, 32>>,
     \* "https:/law.dot.gov.tw/a"
     <<104, 116, 116, 112, 115, 58, 47, 108, 97, 119, 46, 100, 111, 116,
            46, 103, 111, 118, 46, 116, 119, 47, 97>>,
     \* "gov.twhome.jsp"
     <<103, 111, 118, 46, 116, 119, 104, 111, 109, 101, 46, 106, 115, 112>>,
     \* "./a/../b?q#f"
     <<46, 47, 97, 47, 46, 46, 47, 98, 63, 113, 35, 102>>,
     \* "?id=1"
     <<63, 105, 100, 61, 49>>
    }

\* scraper.fix_url_comprehensive(url)
CallFixUrl(url) ==
    /\ fn' = "fix_url_comprehensive"
    /\ arg' = url
    /\ out' = Returned(fix_url_comprehensive(url))
    /\ UNCHANGED <<draft_vars, store_vars, request_vars>>

CallNext ==
    \/ \E draft \in IdentityDrafts : CallGenerateUniqueId(draft)
    \/ \E ruling \in IdentityRulings : CallGenerateId(ruling)
    \/ \E roc_date \in DateArgs : CallConvertRocDate(roc_date)
    \/ \E url \in LinkArgs : CallFixUrl(url)

CallSpec == Init /\ [][CallNext]_vars

(***************************************************************************)
(* The history files.  A file holds the JSON text of a list, complete or   *)
(* cut short, or nothing, or the JSON text of an object.                   *)
(***************************************************************************)
\* the complete text json.dump writes for a list
FileList(items) == [kind |-> "list", items |-> items]

\* the text of a list cut after some of its items: not JSON
FilePartial(items) == [kind |-> "partial", items |-> items]

\* a file of no bytes, as open(..., 'w') leaves it: not JSON
FileEmpty == [kind |-> "empty"]

\* the JSON text of an object with one key: JSON, and not a list
FileObject == [kind |-> "object"]

\* d without the key k
Remove(d, k) == [x \in (DOMAIN d) \ {k} |-> d[x]]

\* the file as an optional value
FileAt(d, name) == IF Has(d, name) THEN Some(d[name]) ELSE None

\* json.load on the content of a file: a list, a dict (tagged object, its
\* content is not read), or an exception
json_load(content) ==
    IF content.kind = "list" THEN Returned(content.items)
    ELSE IF content.kind = "object" THEN [object |-> TRUE]
    ELSE Raised("JSONDecodeError")


(***************************************************************************)
(* A run of the draft scraper on its history file, step by step.           *)
(***************************************************************************)
DraftHistoryName == "draft_law_history.json"

\* ImprovedDraftLawScraper.load_history: no file, or a file json.load
\* raises on, gives []; else what json.load gives, a list or not
load_history_or_empty(d) ==
    IF ~Has(d, DraftHistoryName) THEN Returned(<< >>)
    ELSE IF Has(json_load(d[DraftHistoryName]), "raised") THEN Returned(<< >>)
    ELSE json_load(d[DraftHistoryName])

\* the pages of one row
StorePages == {page \in MainPages : Len(page) = 1}

\* the run is over: the process and what it held in memory are gone
EndRun ==
    /\ pc' = "idle"
    /\ before' = << >>
    /\ batch' = << >>
    /\ loaded' = << >>
    /\ found' = << >>
    /\ pending' = << >>
    /\ save_failed' = FALSE
    /\ report' = << >>

\* main() up to the call of save_history: the fetch, load_history and the
\* comparison.  A history that is a dict makes the comprehension over its
\* keys raise AttributeError, which main() catches to return False
DraftStart(page) ==
    /\ program = "draft"
    /\ pc = "idle"
    /\ clock < MaxRuns
    /\ clock' = clock + 1
    /\ before' = FileAt(disk, DraftHistoryName)
    /\ batch' = fetch_main(page, clock + 1)
    /\ LET got == load_history_or_empty(disk)
           h == got.value
           drafts == fetch_main(page, clock + 1)
       IN IF Has(got, "object")
          THEN /\ pc' = "aborted"
               /\ UNCHANGED <<loaded, found, pending>>
          ELSE /\ pc' = "open"
               /\ loaded' = h
               /\ found' = new_items_of(h, drafts)
               /\ pending' = sort_by_date_desc(
                                 merged_history(h, drafts, clock + 1))
    /\ UNCHANGED <<program, disk, save_failed, report>>
    /\ UNCHANGED <<draft_vars, call_vars, request_vars>>

\* main(): fetch_draft_laws returned [] (the request failed, or nothing
\* was parsed): main returns False at once, nothing is loaded or written
DraftNoData ==
    /\ program = "draft"
    /\ pc = "idle"
    /\ clock < MaxRuns
    /\ clock' = clock + 1
    /\ before' = FileAt(disk, DraftHistoryName)
    /\ pc' = "failed"
    /\ UNCHANGED <<program, disk, batch, loaded, found, pending, save_failed,
                   report>>
    /\ UNCHANGED <<draft_vars, call_vars, request_vars>>

\* save_history: open(history_file, 'w') leaves a file of no bytes
DraftOpen ==
    /\ program = "draft"
    /\ pc = "open"
    /\ disk' = Put(disk, DraftHistoryName, FileEmpty)
    /\ pc' = "write"
    /\ UNCHANGED <<program, clock, before, batch, loaded, found, pending,
                   save_failed, report>>
    /\ UNCHANGED <<draft_vars, call_vars, request_vars>>

\* save_history: json.dump writes the next item; after the last one the
\* text is complete and the file is closed
DraftWrite ==
    /\ program = "draft"
    /\ pc = "write"
    /\ LET written == Get(disk[DraftHistoryName], "items", << >>)
           next == SubSeq(pending, 1, Len(written) + 1)
       IN IF next = pending
          THEN /\ disk' = Put(disk, DraftHistoryName, FileList(pending))
               /\ pc' = "report"
          ELSE /\ disk' = Put(disk, DraftHistoryName, FilePartial(next))
               /\ pc' = "write"
    /\ UNCHANGED <<program, clock, before, batch, loaded, found, pending,
                   save_failed, report>>
    /\ UNCHANGED <<draft_vars, call_vars, request_vars>>

\* save_history: open or a write raises (no permission, disk full); the
\* except clause prints a message and the file stays as it is
DraftSaveFails ==
    /\ program = "draft"
    /\ pc \in {"open", "write"}
    /\ save_failed' = TRUE
    /\ pc' = "report"
    /\ UNCHANGED <<program, disk, clock, before, batch, loaded, found,
                   pending, report>>
    /\ UNCHANGED <<draft_vars, call_vars, request_vars>>

\* generate_comprehensive_report, and main() returns True
DraftReport ==
    /\ program = "draft"
    /\ pc = "report"
    /\ report' = Some([execution_status |-> "success"])
    /\ pc' = "done"
    /\ UNCHANGED <<program, disk, clock, before, batch, loaded, found,
                   pending, save_failed>>
    /\ UNCHANGED <<draft_vars, call_vars, request_vars>>

\* the process ends after main() has returned
Exit ==
    /\ pc \in {"done", "aborted", "failed"}
    /\ EndRun
    /\ UNCHANGED <<program, disk, clock>>
    /\ UNCHANGED <<draft_vars, call_vars, request_vars>>

\* the process is killed, or the machine stops, in the middle of a run
Crash ==
    /\ pc \notin {"idle", "done", "aborted", "failed"}
    /\ EndRun
    /\ UNCHANGED <<program, disk, clock>>
    /\ UNCHANGED <<draft_vars, call_vars, request_vars>>

(***************************************************************************)
(* A run of the rulings scraper (src/smart_scraper.py) on its history      *)
(* file, step by step.                                                     *)
(***************************************************************************)
RulingsHistoryName == "smart_history.json"
TempName == "smart_history.json.tmp"
BackupName == "smart_history.json.backup"

RetentionCeiling == 1000

\* the dict of one ruling of a page, scraped at time t
ruling_of(row, t) ==
    LET r == [date |-> row.date, doc_number |-> row.doc_number,
              title |-> row.title, source |-> "DOT_Taiwan", scrape_time |-> t]
    IN Put(r, "id", generate_id(r))

\* the rulings a page can show
RulingRows ==
    {[date |-> R114_08_19, doc_number |-> DocNo1, title |-> T1],
     [date |-> R114_07_30, doc_number |-> DocNo2, title |-> T2]}

RulingPages == SeqsUpTo(RulingRows, MaxBatch) \ {<< >>}

\* a store that earlier runs have filled to the ceiling: its i-th entry is
\* a ruling whose title is the number i, scraped at time 0
FullStore ==
    [i \in 1..RetentionCeiling |->
        LET r == [title |-> ToStr(i), source |-> "DOT_Taiwan",
                  scrape_time |-> 0]
        IN Put(r, "id", generate_id(r))]

\* if len(history) > 1000: history = history[-1000:]
trim(all) ==
    IF Len(all) > RetentionCeiling
    THEN SubSeq(all, Len(all) - RetentionCeiling + 1, Len(all))
    ELSE all

\* compare_and_update, the reading of the history file: no file and a file
\* of no bytes give []; on JSONDecodeError the file is renamed to the
\* backup name and the history is []
read_history(d) ==
    IF ~Has(d, RulingsHistoryName) \/ d[RulingsHistoryName].kind = "empty"
    THEN [got |-> Returned(<< >>), disk |-> d]
    ELSE IF Has(json_load(d[RulingsHistoryName]), "raised")
    THEN [got |-> Returned(<< >>),
          disk |-> Put(Remove(d, RulingsHistoryName), BackupName,
                       d[RulingsHistoryName])]
    ELSE [got |-> json_load(d[RulingsHistoryName]), disk |-> d]

\* the rulings whose id is not in history_ids
new_rulings_of(h, rulings) ==
    LET history_ids == {h[i].id : i \in 1..Len(h)}
    IN SelectSeq(rulings, LAMBDA r : r.id \notin history_ids)

\* main() up to the save in compare_and_update: the fetch, the reading of
\* the history and the comparison.  A history that is a dict makes
\* item.get raise AttributeError on its keys; main() catches it, writes a
\* report with status error and exits with 1
RulingsStart(page) ==
    /\ program = "rulings"
    /\ pc = "idle"
    /\ clock < MaxRuns
    /\ clock' = clock + 1
    /\ before' = FileAt(disk, RulingsHistoryName)
    /\ LET new_rulings == [i \in 1..Len(page) |-> ruling_of(page[i], clock + 1)]
           read == read_history(disk)
           appended == new_rulings_of(read.got.value, new_rulings)
       IN /\ batch' = new_rulings
          /\ disk' = read.disk
          /\ IF Has(read.got, "object")
             THEN /\ pc' = "aborted"
                  /\ report' = Some([status |-> "error"])
                  /\ UNCHANGED <<loaded, found, pending>>
             ELSE /\ loaded' = read.got.value
                  /\ found' = appended
                  /\ pending' = IF appended = << >> THEN read.got.value
                                ELSE trim(read.got.value \o appended)
                  /\ pc' = IF appended = << >> THEN "report" ELSE "temp"
                  /\ UNCHANGED report
    /\ UNCHANGED <<program, save_failed>>
    /\ UNCHANGED <<draft_vars, call_vars, request_vars>>

\* main(): fetch_new_rulings returned [] (the request failed, or nothing
\* was parsed): main goes to generate_report([], []) and returns
RulingsNoData ==
    /\ program = "rulings"
    /\ pc = "idle"
    /\ clock < MaxRuns
    /\ clock' = clock + 1
    /\ before' = FileAt(disk, RulingsHistoryName)
    /\ pc' = "report"
    /\ UNCHANGED <<program, disk, batch, loaded, found, pending, save_failed,
                   report>>
    /\ UNCHANGED <<draft_vars, call_vars, request_vars>>

\* json.dump(history) into the temporary file
RulingsWriteTemp ==
    /\ program = "rulings"
    /\ pc = "temp"
    /\ disk' = Put(disk, TempName, FileList(pending))
    /\ pc' = "verify"
    /\ UNCHANGED <<program, clock, before, batch, loaded, found, pending,
                   save_failed, report>>
    /\ UNCHANGED <<draft_vars, call_vars, request_vars>>

\* json.load of the temporary file
RulingsReadBack ==
    /\ program = "rulings"
    /\ pc = "verify"
    /\ Has(json_load(disk[TempName]), "value")
    /\ pc' = "replace"
    /\ UNCHANGED <<program, disk, clock, before, batch, loaded, found,
                   pending, save_failed, report>>
    /\ UNCHANGED <<draft_vars, call_vars, request_vars>>

\* temp_file.replace(history_file)
RulingsReplace ==
    /\ program = "rulings"
    /\ pc = "replace"
    /\ disk' = Put(Remove(disk, TempName), RulingsHistoryName, disk[TempName])
    /\ pc' = "report"
    /\ UNCHANGED <<program, clock, before, batch, loaded, found, pending,
                   save_failed, report>>
    /\ UNCHANGED <<draft_vars, call_vars, request_vars>>

\* one of the three steps raises: the except clause logs the error and
\* removes the temporary file if there is one
RulingsSaveFails ==
    /\ program = "rulings"
    /\ pc \in {"temp", "verify", "replace"}
    /\ save_failed' = TRUE
    /\ disk' = Remove(disk, TempName)
    /\ pc' = "report"
    /\ UNCHANGED <<program, clock, before, batch, loaded, found, pending,
                   report>>
    /\ UNCHANGED <<draft_vars, call_vars, request_vars>>

\* generate_report(new_items, rulings)
RulingsReport ==
    /\ program = "rulings"
    /\ pc = "report"
    /\ report' = Some([status |-> IF batch # << >> THEN "success"
                                  ELSE "no_data"])
    /\ pc' = "done"
    /\ UNCHANGED <<program, disk, clock, before, batch, loaded, found,
                   pending, save_failed>>
    /\ UNCHANGED <<draft_vars, call_vars, request_vars>>

\* the history files a run can find: none, a file of no bytes, the text of
\* an object, and for the rulings a list cut short and a full store
InitialDisks ==
    [draft |-> {<< >>,
                Put(<< >>, DraftHistoryName, FileEmpty),
                Put(<< >>, DraftHistoryName, FileObject)},
     rulings |-> {<< >>,
                  Put(<< >>, RulingsHistoryName, FileEmpty),
                  Put(<< >>, RulingsHistoryName, FileObject),
                  Put(<< >>, RulingsHistoryName,
                      FilePartial(SubSeq(FullStore, 1, 1))),
                  Put(<< >>, RulingsHistoryName, FileList(FullStore))}]

StoreInit ==
    /\ DraftIdle
    /\ NoCall
    /\ program \in {"draft", "rulings"}
    /\ disk \in InitialDisks[program]
    /\ clock = 0
    /\ NoRun
    /\ NoRequest

StoreNext ==
    \/ \E page \in StorePages : DraftStart(page)
    \/ DraftNoData
    \/ DraftOpen
    \/ DraftWrite
    \/ DraftSaveFails
    \/ DraftReport
    \/ \E page \in RulingPages : RulingsStart(page)
    \/ RulingsNoData
    \/ RulingsWriteTemp
    \/ RulingsReadBack
    \/ RulingsReplace
    \/ RulingsSaveFails
    \/ RulingsReport
    \/ Exit
    \/ Crash

StoreSpec == StoreInit /\ [][StoreNext]_vars

(***************************************************************************)
(* Calls of compare_and_update of the rulings scraper, one after another   *)
(* on the same data directory, each with a save that succeeds.             *)
(***************************************************************************)
\* compare_and_update(new_rulings) on the directory d: what it returns or
\* raises, and the directory it leaves
compare_and_update(d, new_rulings) ==
    With(read_history(d), LAMBDA read :
    IF Has(read.got, "object")
    THEN [out |-> Raised("AttributeError"), disk |-> read.disk]
    ELSE With(new_rulings_of(read.got.value, new_rulings), LAMBDA appended :
         IF appended = << >>
         THEN [out |-> Returned([new_items |-> appended,
                                 history |-> read.got.value]),
               disk |-> read.disk]
         ELSE With(trim(read.got.value \o appended), LAMBDA trimmed :
              [out |-> Returned([new_items |-> appended,
                                 history |-> trimmed]),
               disk |-> Put(read.disk, RulingsHistoryName,
                            FileList(trimmed))])))

\* a batch of one ruling more than the ceiling, none of them in FullStore:
\* the title of the i-th is the number 1000 + i
BigBatch ==
    [i \in 1..(RetentionCeiling + 1) |->
        LET r == [title |-> ToStr(RetentionCeiling + i),
                  source |-> "DOT_Taiwan", scrape_time |-> 1]
        IN Put(r, "id", generate_id(r))]

\* the batches given to compare_and_update
RerunBatches ==
    {[i \in 1..Len(page) |-> ruling_of(page[i], 1)] : page \in RulingPages}
    \cup {BigBatch}

\* scraper.compare_and_update(new_rulings)
CallCompareAndUpdate(new_rulings) ==
    /\ clock < MaxRuns
    /\ clock' = clock + 1
    /\ fn' = "compare_and_update"
    /\ arg' = new_rulings
    /\ out' = compare_and_update(disk, new_rulings).out
    /\ disk' = compare_and_update(disk, new_rulings).disk
    /\ UNCHANGED <<program, pc, before, batch, loaded, found, pending,
                   save_failed, report>>
    /\ UNCHANGED <<draft_vars, request_vars>>

RerunInit == StoreInit /\ program = "rulings"

RerunNext == \E new_rulings \in RerunBatches : CallCompareAndUpdate(new_rulings)

RerunSpec == RerunInit /\ [][RerunNext]_vars

(***************************************************************************)
(* A call of safe_request, step by step.  What the server does is an       *)
(* input of each attempt.                                                  *)
(***************************************************************************)
\* what one session.get can give: a response with status 200, 404 or
\* another status, or a requests.RequestException
Ok == [status_code |-> 200]
NotFound == [status_code |-> 404]
ServerError == [status_code |-> 500]
RequestException == [raised |-> "RequestException"]
GetAnswers == {Ok, NotFound, ServerError, RequestException}

\* min(2 ** attempt, 10) without the cap
wait_time_uncapped(k) == 2 ^ k

\* wait_time = min(2 ** attempt, 10)
wait_time(k) == IF 2 ^ k < 10 THEN 2 ^ k ELSE 10

\* safe_request(url, params, max_retries=n) is called: the loop starts, or
\* is over at once when range(max_retries) is empty
SafeRequest(n) ==
    /\ req_pc = "idle"
    /\ max_retries' = n
    /\ attempt' = 0
    /\ response' = None
    /\ req_pc' = IF n > 0 THEN "get" ELSE "returned"
    /\ UNCHANGED <<answers, sleeps>>
    /\ UNCHANGED <<draft_vars, call_vars, store_vars>>

\* one session.get and the test of its status: 200 returns the response,
\* 404 returns None, another status or an exception goes on to the wait
SessionGet(answer) ==
    /\ req_pc = "get"
    /\ answers' = Append(answers, answer)
    /\ IF answer = Ok
       THEN response' = Some(answer) /\ req_pc' = "returned"
       ELSE IF answer = NotFound
       THEN response' = None /\ req_pc' = "returned"
       ELSE response' = response /\ req_pc' = "failed"
    /\ UNCHANGED <<max_retries, attempt, sleeps>>
    /\ UNCHANGED <<draft_vars, call_vars, store_vars>>

\* if attempt < max_retries - 1: time.sleep(wait_time), then the next
\* attempt
Sleep ==
    /\ req_pc = "failed"
    /\ attempt < max_retries - 1
    /\ sleeps' = Append(sleeps, wait_time(attempt))
    /\ attempt' = attempt + 1
    /\ req_pc' = "get"
    /\ UNCHANGED <<max_retries, answers, response>>
    /\ UNCHANGED <<draft_vars, call_vars, store_vars>>

\* the last attempt failed: the loop is over, return None
GiveUp ==
    /\ req_pc = "failed"
    /\ ~(attempt < max_retries - 1)
    /\ response' = None
    /\ req_pc' = "returned"
    /\ UNCHANGED <<max_retries, attempt, answers, sleeps>>
    /\ UNCHANGED <<draft_vars, call_vars, store_vars>>

\* a step of a call that has started
RequestStep ==
    \/ \E answer \in GetAnswers : SessionGet(answer)
    \/ Sleep
    \/ GiveUp

RequestNext ==
    \/ \E n \in 0..MaxRetries : SafeRequest(n)
    \/ RequestStep

\* session.get is given timeout=30 and time.sleep returns: a call that has
\* started takes its next step
RequestSpec == Init /\ [][RequestNext]_vars /\ WF_vars(RequestStep)

(***************************************************************************)
(* Vocabulary of the properties.                                           *)
(***************************************************************************)
\* the record has a url that is not empty
has_url(d) == Has(d, "url") /\ d.url # EmptyStr

Nian == 24180
Yue == 26376
Ri == 26085

\* era, month and day of a text era.mm.dd, era/mm/dd or era Nian mm Yue dd Ri
\* (Nian, Yue, Ri: the signs for year, month and day), the patterns tried
\* in this order; << >> when the text has none of them
roc_parts(text) ==
    LET by_dot == Split(text, Dot)
        by_slash == Split(text, Slash)
        by_nian == Split(text, Nian)
        by_yue == IF Len(by_nian) = 2 THEN Split(by_nian[2], Yue) ELSE << >>
        cjk == IF Len(by_yue) = 2 /\ Len(by_yue[2]) > 0
                  /\ by_yue[2][Len(by_yue[2])] = Ri
               THEN <<by_nian[1], by_yue[1],
                      SubSeq(by_yue[2], 1, Len(by_yue[2]) - 1)>>
               ELSE << >>
        numeric(p) == Len(p) = 3 /\ \A i \in 1..3 : IsInt(p[i])
    IN IF numeric(by_dot) THEN by_dot
       ELSE IF numeric(by_slash) THEN by_slash
       ELSE IF numeric(cjk) THEN cjk
       ELSE << >>

\* the zero-padded YYYY-MM-DD of era, month and day
iso_date(parts) ==
    ToStr(ToInt(parts[1]) + RocOffset) \o <<Dash>>
    \o Pad2(ToInt(parts[2])) \o <<Dash>> \o Pad2(ToInt(parts[3]))

\* the history file of the scraper that runs
HistoryName ==
    IF program = "draft" THEN DraftHistoryName ELSE RulingsHistoryName

\* the history a file holds: the list, or nothing when the file is absent
\* or is not the text of a list
stored_history(file) ==
    IF file # None /\ file[1].kind = "list" THEN file[1].items ELSE << >>

\* the run has reconciled a batch and has come to its save, or is past it
InOrPastSave ==
    /\ batch # << >>
    /\ pc \in {"open", "write", "temp", "verify", "replace", "report", "done"}

\* the run is over: main() has returned or has called exit
RunOver == pc \in {"done", "aborted", "failed"}

\* the exit code of a run that is over: 0 when main() went to its end (the
\* draft scraper returns True, the rulings scraper returns), 1 when the
\* draft scraper returned False or the rulings scraper called exit(1)
exit_code == IF pc = "done" THEN 0 ELSE 1

\* the run found a history file that is not the text of a list
FoundInvalidFile == before # None /\ before[1].kind # "list"

\* the status a report carries
report_status(r) ==
    IF Has(r, "status") THEN r.status ELSE r.execution_status

\* the history in memory is shorter than the loaded one with the new
\* rulings appended
Trimmed == found # << >> /\ Len(pending) < Len(loaded) + Len(found)

\* the text is a url with a scheme and an authority
url_valid(url) ==
    /\ urlparse(url, EmptyStr).scheme # EmptyStr
    /\ urlparse(url, EmptyStr).netloc # EmptyStr

\* the href holds one of the known malformed artifacts: one of the three
\* texts of error_patterns, or two slashes that do not follow a colon
has_artifact(url) ==
    \/ \E i \in 1..3 : Contains(url, error_patterns[i][1])
    \/ collapse_slashes(url, 1) # url

\* two drafts differ in a field of their identity key
draft_key_differs(a, b) ==
    IF has_url(a) /\ has_url(b) THEN a.url # b.url
    ELSE IF has_url(a) \/ has_url(b) THEN TRUE
    ELSE Differs(a, b, "title") \/ Differs(a, b, "date")

\* identifiers carried by the entries of a list
ids(items) == {x.unique_id : x \in {y \in Range(items) : Has(y, "unique_id")}}

\* the entries of a list that carry uid
entries_of(items, uid) ==
    {x \in Range(items) : Has(x, "unique_id") /\ x.unique_id = uid}

\* the EXPIRED entries of a list
expired_entries(items) ==
    {x \in Range(items) : Has(x, "status") /\ x.status = "expired"}

\* the number of entries of a list with the given status
count_status(items, status) ==
    Cardinality({i \in 1..Len(items) :
                    Has(items[i], "status") /\ items[i].status = status})

\* the smaller of two numbers
Min(a, b) == IF a <= b THEN a ELSE b

\* what is known of a call of safe_request at any moment: at most
\* max_retries attempts; an answer 200 or 404 ends the call; the k-th wait
\* is min(2^(k-1), 10) seconds and there is one wait between two attempts,
\* none after the last; on return, the response is the answer 200 of the
\* last attempt, or None after a 404 or after max_retries failures
RetryContract ==
    /\ Len(answers) <= max_retries
    /\ \A i \in 1..Len(answers) :
          answers[i] \in {Ok, NotFound} =>
              i = Len(answers) /\ req_pc = "returned"
    /\ \A k \in 1..Len(sleeps) : sleeps[k] = Min(2 ^ (k - 1), 10)
    /\ req_pc = "get" => Len(sleeps) = Len(answers)
    /\ (req_pc \in {"failed", "returned"} /\ answers # << >>) =>
          Len(sleeps) = Len(answers) - 1
    /\ req_pc = "returned" =>
          IF answers # << >> /\ answers[Len(answers)] = Ok
          THEN response = Some(answers[Len(answers)])
          ELSE /\ response = None
               /\ \/ answers = << >> /\ max_retries = 0
                  \/ answers # << >> /\ answers[Len(answers)] = NotFound
                  \/ Len(answers) = max_retries

\* a field as an optional value: absent is the empty option
field(x, k) == IF k \in DOMAIN x THEN {x[k]} ELSE {}

ComparedFields == {"title", "end_date", "date"}

\* the compared fields on which two records disagree
differing(a, b) == {k \in ComparedFields : field(a, k) # field(b, k)}

\* the step is a reconciliation pass of main()
PassStep == now' = now + 1 /\ success' = "True"

\* a date "YYYY-MM-DD" as the number YYYYMMDD, 0 when the record has none
date_number(x) ==
    IF Has(x, "date")
    THEN LET p == Split(x.date, Dash)
         IN ToInt(p[1]) * 10000 + ToInt(p[2]) * 100 + ToInt(p[3])
    ELSE 0

(***************************************************************************)
(* C1: reconciling the same batch twice in a row gives, on the second      *)
(* pass, new_count = 0, updated_count = 0 and expired_count = 0, and the   *)
(* same set of EXPIRED entries in the stored history.                      *)
(* Stated as it stands; it fails when the page lists one url twice.        *)
(***************************************************************************)
C1_Idempotence ==
    [][(PassStep /\ rows # << >> /\ rows' = rows) =>
          /\ stats'.new_count = 0
          /\ stats'.updated_count = 0
          /\ stats'.expired_count = 0
          /\ expired_entries(history_file') = expired_entries(history_file)]_vars

(***************************************************************************)
(* C2: no two entries of the persisted history share an identifier, also   *)
(* when one batch holds two records with the same identifier.              *)
(* Stated as it stands; it fails on such a batch.                          *)
(***************************************************************************)
C2_UniqueIdentifiers ==
    \A i, j \in 1..Len(history_file) :
        i # j => history_file[i].unique_id # history_file[j].unique_id

C4_ReactivationIsNew ==
    \A uid \in ids(history) \cap ids(current_drafts) :
        dict_value(history, uid).status = "expired" =>
            /\ uid \in ids(new_items)
            /\ entries_of(history_file, uid) # {}
            /\ \A e \in entries_of(history_file, uid) : e.status = "active"

(***************************************************************************)
(* C4 amended: an identifier whose history entry is EXPIRED and that is    *)
(* in the batch again is not in the NEW list (it is known to the history), *)
(* and its entry in the saved history is ACTIVE.                           *)
(***************************************************************************)
C4_ReactivationNotNew ==
    \A uid \in ids(history) \cap ids(current_drafts) :
        dict_value(history, uid).status = "expired" =>
            /\ uid \notin ids(new_items)
            /\ stats.new_count = Cardinality(ids(current_drafts) \ ids(history))
            /\ entries_of(history_file, uid) # {}
            /\ \A e \in entries_of(history_file, uid) : e.status = "active"

\* a pass whose batch brought back a draft that the history had as EXPIRED
C4_Witness ==
    \E uid \in ids(history) \cap ids(current_drafts) :
        /\ dict_value(history, uid).status = "expired"
        /\ \E e \in entries_of(history_file, uid) : e.status = "active"

(***************************************************************************)
(* C5: an identifier of both the batch and the history is in the UPDATED   *)
(* list exactly when title, end_date or date differ between its batch      *)
(* record and its history entry, a field present on one side only being a  *)
(* difference; the saved entry then carries the batch values of the three  *)
(* fields, has last_updated, and its changes name exactly the differing    *)
(* fields.                                                                 *)
(***************************************************************************)
C5_UpdatedClassification ==
    \A uid \in ids(history) \cap ids(current_drafts) :
        LET cur == dict_value(current_drafts, uid)
            old == dict_value(history, uid)
            diff == differing(cur, old)
        IN /\ (uid \in ids(updated_items)) <=> (diff # {})
           /\ diff # {} =>
                \A e \in entries_of(history_file, uid) :
                    /\ differing(e, cur) = {}
                    /\ Has(e, "last_updated")
                    /\ Has(e, "changes")
                    /\ Range(e.changes) = diff
                    /\ Len(e.changes) = Cardinality(diff)

\* a pass that saw only the announcement date of a known draft change
C5_Witness ==
    \E e \in Range(history_file) :
        /\ Has(e, "changes")
        /\ e.changes = <<"date">>
        /\ e \in Range(updated_items)
        /\ e.unique_id \in ids(history)

(***************************************************************************)
(* C6: an identifier of both the batch and the history whose title,        *)
(* end_date and date are equal keeps, in the saved history, an entry       *)
(* identical in every field to the one the history had.                    *)
(* Stated as it stands; it fails because the batch record is stored.       *)
(***************************************************************************)
C6_UnchangedEntryKept ==
    \A uid \in ids(history) \cap ids(current_drafts) :
        differing(dict_value(current_drafts, uid), dict_value(history, uid)) = {}
            => \A e \in entries_of(history_file, uid) : e \in Range(history)

(***************************************************************************)
(* C7: every ACTIVE entry of the loaded history whose identifier is not    *)
(* in the batch is in the saved history, unchanged but for state EXPIRED   *)
(* and an expired_at, and is counted in expired_count; no entry whose      *)
(* identifier is in the batch is EXPIRED.                                  *)
(* Stated as it stands; it fails when the history holds an identifier      *)
(* twice.                                                                  *)
(***************************************************************************)
C7_ExpiredClassification ==
    LET gone == {i \in 1..Len(history) :
                    /\ history[i].status = "active"
                    /\ history[i].unique_id \notin ids(current_drafts)}
    IN /\ \A i \in gone :
             \E e \in Range(history_file) :
                 /\ e.status = "expired"
                 /\ Has(e, "expired_at")
                 /\ e = Put(Put(history[i], "status", "expired"),
                            "expired_at", e.expired_at)
       /\ stats.expired_count = Cardinality(gone)
       /\ \A e \in Range(history_file) :
             e.unique_id \in ids(current_drafts) => e.status # "expired"

(***************************************************************************)
(* C8: an identifier of the history that is absent from two consecutive    *)
(* batches is in the saved history after each of the two passes with       *)
(* state EXPIRED, and with the expired_at it had after the first of them.  *)
(***************************************************************************)
C8_MonotonicExpiry ==
    [][PassStep =>
          \A uid \in ids(history) :
              (uid \notin ids(current_drafts) /\ uid \notin ids(current_drafts')) =>
                  /\ entries_of(history_file, uid) # {}
                  /\ entries_of(history_file', uid) # {}
                  /\ \A e \in entries_of(history_file, uid) \cup
                              entries_of(history_file', uid) :
                         e.status = "expired" /\ Has(e, "expired_at")
                  /\ {e.expired_at : e \in entries_of(history_file', uid)}
                       = {e.expired_at : e \in entries_of(history_file, uid)}]_vars

\* a pass that loaded an entry already EXPIRED, whose identifier the batch
\* again did not hold, and the entry is in the saved history
C8_Witness ==
    \E uid \in ids(history) \ ids(current_drafts) :
        /\ dict_value(history, uid).status = "expired"
        /\ \E e \in entries_of(history_file, uid) :
              e.status = "expired" /\ e.expired_at < now

(***************************************************************************)
(* C9: the saved history of a pass has at least as many entries as the     *)
(* history the pass loaded.                                                *)
(* Stated as it stands; it fails when the history holds an identifier      *)
(* twice.                                                                  *)
(***************************************************************************)
C9_HistoryNeverShrinks == Len(history_file) >= Len(history)

(***************************************************************************)
(* C10: the history returned and saved by a pass is in descending order    *)
(* of announcement date, the records without a date after all the dated    *)
(* ones, and records with the same date in the order in which the pass     *)
(* put them in the list.                                                   *)
(***************************************************************************)
C10_OutputOrdering ==
    /\ history_file = updated_history
    /\ \A i, j \in 1..Len(updated_history) :
          i < j =>
            /\ date_number(updated_history[i]) >= date_number(updated_history[j])
            /\ Has(updated_history[j], "date") => Has(updated_history[i], "date")
    /\ \A x \in Range(merged) :
          SelectSeq(updated_history, LAMBDA y : sort_key(y) = sort_key(x))
            = SelectSeq(merged, LAMBDA y : sort_key(y) = sort_key(x))

\* a pass whose sort moved records: two distinct records with one date,
\* and a record without a date that was first in the list
C10_Witness ==
    /\ merged # updated_history
    /\ ~Has(merged[1], "date")
    /\ \E i, j \in 1..Len(updated_history) :
          /\ i < j
          /\ Has(updated_history[i], "date")
          /\ Has(updated_history[j], "date")
          /\ updated_history[i].date = updated_history[j].date
          /\ updated_history[i] # updated_history[j]

(***************************************************************************)
(* C16: a run whose fetch gave no drafts (a transport error makes          *)
(* fetch_draft_laws return the empty list) leaves the persisted history    *)
(* file as it was, so no ACTIVE entry of it becomes EXPIRED.               *)
(***************************************************************************)
C16_EmptyBatchSafety ==
    [][(now' = now + 1 /\ success' = "False") => history_file' = history_file]_vars

\* a run without drafts has ended while the file holds an ACTIVE entry
C16_Witness ==
    /\ success = "False"
    /\ \E e \in Range(history_file) : e.status = "active"

(***************************************************************************)
(* C17: generate_unique_id depends on its key only: a draft with a url     *)
(* gets the digest of the url, so every draft with the same url gets the   *)
(* same identifier whatever its title, its date and the run it was         *)
(* scraped in; a draft without url gets the digest of its title followed   *)
(* by its date.                                                            *)
(***************************************************************************)
C17_IdentityStability ==
    fn = "generate_unique_id" =>
        /\ has_url(arg) => out = Returned(md5_12(arg.url))
        /\ ~has_url(arg) =>
              out = Returned(md5_12(Get(arg, "title", EmptyStr)
                                      \o Get(arg, "date", EmptyStr)))
        /\ \A d \in IdentityDrafts :
              (has_url(arg) /\ has_url(d) /\ d.url = arg.url)
                  => Returned(generate_unique_id(d)) = out

\* a draft with a url was given an identifier that a draft of another run,
\* with the same url and another title and date, gets too
C17_Witness ==
    /\ fn = "generate_unique_id"
    /\ has_url(arg)
    /\ \E d \in IdentityDrafts :
          /\ has_url(d) /\ d.url = arg.url
          /\ Differs(d, arg, "title") /\ Differs(d, arg, "date")
          /\ d.scraped_at # arg.scraped_at
          /\ Returned(generate_unique_id(d)) = out

(***************************************************************************)
(* C18: two records that differ in a field of the identity key get         *)
(* different identifiers, the digest being injective: for drafts the url,  *)
(* or title and date when there is no url; for rulings date, document      *)
(* number and title.                                                       *)
(* Stated as it stands; it fails for two rulings whose titles differ       *)
(* after their first 50 characters only.                                   *)
(***************************************************************************)
C18_IdentifierDistinctness ==
    /\ fn = "generate_unique_id" =>
          \A d \in IdentityDrafts :
              draft_key_differs(arg, d)
                  => Returned(generate_unique_id(d)) # out
    /\ fn = "generate_id" =>
          \A r \in IdentityRulings :
              (\E k \in {"date", "doc_number", "title"} : Differs(arg, r, k))
                  => Returned(generate_id(r)) # out

(***************************************************************************)
(* C19: convert_roc_date gives, for a text of the form era.mm.dd,          *)
(* era/mm/dd or era Nian mm Yue dd Ri (the signs for year, month and day), *)
(* the zero-padded YYYY-MM-DD with year era + 1911; for any other text,    *)
(* and for a missing value, it returns None and does not raise.            *)
(* Stated as it stands; it fails on every argument but the dotted form.    *)
(***************************************************************************)
C19_DateConversion ==
    fn = "convert_roc_date" =>
        IF arg # None /\ roc_parts(arg[1]) # << >>
        THEN out = Returned(iso_date(roc_parts(arg[1])))
        ELSE out = [none |-> TRUE]

(***************************************************************************)
(* C20: fix_url_comprehensive returns None or a url with a scheme and an   *)
(* authority, and an href that holds a known malformed artifact comes      *)
(* back as an https url whose authority is law.dot.gov.tw.                 *)
(* Stated as it stands; it fails on the artifact "twhome.jsp" itself and   *)
(* on every href the function cannot repair, which it returns as given.    *)
(***************************************************************************)
C20_LinkRepair ==
    fn = "fix_url_comprehensive" =>
        /\ \/ out = [none |-> TRUE]
           \/ Has(out, "value") /\ url_valid(out.value)
        /\ has_artifact(arg) =>
              /\ Has(out, "value")
              /\ StartsWith(out.value, HttpsPrefix)
              /\ urlparse(out.value, EmptyStr).netloc = SourceHost

(***************************************************************************)
(* C11: from the start of a save on, whatever the step at which the run    *)
(* is stopped, the history file holds the complete history it held when    *)
(* the run started (or is absent as it was then) or the complete new       *)
(* history, never part of one.  Runs that found a complete file or none.   *)
(* Stated as it stands; it fails in save_history of the draft scraper.     *)
(***************************************************************************)
C11_CrashSafeSave ==
    (InOrPastSave /\ ~FoundInvalidFile) =>
        FileAt(disk, HistoryName) \in {before, Some(FileList(pending))}

(***************************************************************************)
(* C12: when the save of a run has failed, the history file holds the      *)
(* history the run loaded, for the next run to reconcile against.          *)
(* Stated as it stands; it fails in save_history of the draft scraper.     *)
(***************************************************************************)
C12_WriteFailureKeepsStore ==
    save_failed => stored_history(FileAt(disk, HistoryName)) = loaded

(***************************************************************************)
(* C13: the report of a run whose save has failed does not carry the       *)
(* status success.                                                         *)
(* Stated as it stands; it fails in both scrapers.                         *)
(***************************************************************************)
C13_WriteFailureReported ==
    (save_failed /\ report # None) => report_status(report[1]) # "success"

(***************************************************************************)
(* C14: a run that finds a history file that is not the text of a list     *)
(* does not abort, takes the history as empty so that every record of the  *)
(* batch is new, and once it has saved the new history the content of the  *)
(* invalid file is in another file of the directory.                       *)
(* Stated as it stands; it fails in both scrapers.                         *)
(***************************************************************************)
C14_CorruptStoreRecovery ==
    FoundInvalidFile =>
        /\ pc # "aborted"
        /\ InOrPastSave => (loaded = << >> /\ found = batch)
        /\ (InOrPastSave /\ pc \in {"report", "done"} /\ ~save_failed) =>
              \E name \in (DOMAIN disk) \ {HistoryName} : disk[name] = before[1]

(***************************************************************************)
(* C15: when the history of the rulings scraper exceeds 1000 entries, the  *)
(* entries dropped are those scraped earliest; the history in memory is    *)
(* trimmed only once the untrimmed history is in the file, and never in a  *)
(* run whose save failed.                                                  *)
(* Stated as it stands; it fails because the trim comes before the save.   *)
(***************************************************************************)
C15_BoundedRetention ==
    (program = "rulings" /\ Trimmed) =>
        /\ LET all == loaded \o found
               dropped == Len(all) - Len(pending)
           IN /\ pending = SubSeq(all, dropped + 1, Len(all))
              /\ \A i \in 1..dropped, j \in (dropped + 1)..Len(all) :
                    all[i].scrape_time <= all[j].scrape_time
        /\ stored_history(FileAt(disk, HistoryName)) = loaded \o found
        /\ ~save_failed

(***************************************************************************)
(* C22: in the persisted history after any sequence of runs from an empty  *)
(* history, an entry has expired_at exactly when its status is expired.    *)
(***************************************************************************)
C22_LifecycleField ==
    \A e \in Range(history_file) :
        Has(e, "expired_at") <=> (Has(e, "status") /\ e.status = "expired")

\* the persisted history holds an EXPIRED entry with its time of expiry and
\* an ACTIVE entry of a draft that had expired before and came back
C22_Witness ==
    /\ \E e \in Range(history_file) :
          e.status = "expired" /\ Has(e, "expired_at")
    /\ \E e \in Range(history_file) :
          /\ e.status = "active"
          /\ ~Has(e, "expired_at")
          /\ \E old \in entries_of(history, e.unique_id) : old.status = "expired"

(***************************************************************************)
(* C24: a history entry that carries last_updated and changes from an      *)
(* earlier pass, and whose record is in the batch with the same title,     *)
(* end_date and date, has in the saved history an entry with the same      *)
(* last_updated and the same changes.                                      *)
(* Stated as it stands; it fails because the batch record is stored (C6).  *)
(***************************************************************************)
C24_RevisionMarksPersist ==
    \A uid \in ids(history) \cap ids(current_drafts) :
        LET old == dict_value(history, uid)
            cur == dict_value(current_drafts, uid)
        IN (Has(old, "last_updated") /\ differing(cur, old) = {}) =>
              \E e \in entries_of(history_file, uid) :
                  /\ Has(e, "last_updated")
                  /\ e.last_updated = old.last_updated
                  /\ Has(e, "changes")
                  /\ e.changes = old.changes

(***************************************************************************)
(* C26: after a pass, active_count is the number of ACTIVE entries of the  *)
(* returned history, total_historical is active_count plus the number of   *)
(* its EXPIRED entries, no identifier is both in the NEW and in the        *)
(* UPDATED list, and new_count + updated_count is at most the number of    *)
(* distinct identifiers of the batch.                                      *)
(***************************************************************************)
C26_ReportCounts ==
    /\ stats.active_count = count_status(updated_history, "active")
    /\ stats.total_historical =
          stats.active_count + count_status(updated_history, "expired")
    /\ ids(new_items) \cap ids(updated_items) = {}
    /\ stats.new_count = Len(new_items)
    /\ stats.updated_count = Len(updated_items)
    /\ stats.new_count + stats.updated_count <= Cardinality(ids(current_drafts))

\* a pass on a batch that lists one identifier twice, with an updated
\* draft and an EXPIRED entry in the returned history
C26_Witness ==
    /\ Len(current_drafts) > Cardinality(ids(current_drafts))
    /\ count_status(updated_history, "expired") > 0
    /\ stats.updated_count > 0

(***************************************************************************)
(* C23: a call of safe_request makes at most max_retries attempts and      *)
(* returns; it returns the response of the first attempt answered 200,     *)
(* None at once on a 404, None after max_retries failed attempts; between  *)
(* failed attempt k and attempt k+1 it waits min(2^k, 10) seconds, and it  *)
(* does not wait after the last attempt.                                   *)
(***************************************************************************)
C23_BoundedRetry ==
    /\ []RetryContract
    /\ (req_pc # "idle") ~> (req_pc = "returned")

\* a call that failed five times, waited 1, 2, 4, 8 and 10 seconds and got
\* 200 on its sixth attempt
C23_Witness ==
    /\ req_pc = "returned"
    /\ sleeps = <<1, 2, 4, 8, 10>>
    /\ response = Some(Ok)

(***************************************************************************)
(* C21: a run that is over has written a report; its exit code is 0 when   *)
(* it reconciled a batch without an exception, and is not 0 when the fetch *)
(* gave no batch.                                                          *)
(* Stated as it stands; it fails in both scrapers when the fetch gives     *)
(* nothing.                                                                *)
(***************************************************************************)
C21_RunOutcome ==
    RunOver =>
        /\ report # None
        /\ (batch # << >> /\ pc # "aborted") => exit_code = 0
        /\ batch = << >> => exit_code # 0

(***************************************************************************)
(* C25: a call of compare_and_update that follows at once a call with the  *)
(* same batch, whose save succeeded, returns no new items and leaves every *)
(* file of the data directory as it was.                                   *)
(* Stated as it stands; it fails for a batch with more than 1000 new       *)
(* rulings.                                                                *)
(***************************************************************************)
C25_RulingsRerun ==
    [][(/\ fn = "compare_and_update"
        /\ Has(out, "value")
        /\ fn' = "compare_and_update"
        /\ arg' = arg) =>
            /\ Has(out', "value")
            /\ out'.value.new_items = << >>
            /\ disk' = disk]_vars

====
